---- MODULE Spec2Model ----
(***************************************************************************)
(* Latera Rust core: the file watcher (src/rust/src/file_watcher/mod.rs)   *)
(* and the bridge API around it (src/rust/api.rs).                         *)
(*                                                                         *)
(* Caller threads invoke start_watching, stop_watching and on_file_added;  *)
(* every successful start spawns one worker thread that runs the           *)
(* classify -> dedup -> hygiene -> rate-limit -> on_added pipeline.        *)
(* Time is in milliseconds.                                                *)
(***************************************************************************)
EXTENDS Integers, Sequences, FiniteSets, TLC

VARIABLES
    WATCHER,          \* api.rs:33   0 = None, w = Some(handle of worker w)
    watcherLock,      \* api.rs:33   0 = free, t = held by caller thread t
    FILE_ADDED_SINK,  \* api.rs:30   0 = None, s = Some(sink s)
    sinkLock,         \* api.rs:30   holder of the mutex, NoHolder when free
    th,               \* caller threads: position, locals, last result
    wk,               \* worker threads: position, channels, engine state
    now,              \* the monotonic clock (Instant::now), ms
    files,            \* paths that are regular files (any other path is a
                      \* directory, missing or inaccessible)
    dirs,             \* watch directories that exist (create_dir_all)
    calls,            \* API calls made so far
    nextWorker,       \* id of the next worker thread to spawn
    nextSink,         \* id of the next StreamSink handed to on_file_added
    closed,           \* sinks that were dropped (stream closed)
    delivered,        \* per sink: number of events sink.add received
    stopReturned      \* workers whose WatcherHandle::stop has returned

vars == <<WATCHER, watcherLock, FILE_ADDED_SINK, sinkLock, th, wk, now, files,
          dirs, calls, nextWorker, nextSink, closed,
          delivered, stopReturned>>

----------------------------------------------------------------------------
(* Program constants *)

DEDUP_WINDOW == 300
RATE_LIMIT_PER_SECOND == 200
DEDUP_MAP_MAX_SIZE == 1000
CLEANUP_EVERY == 100
RATE_WINDOW == 1000

(* Bounds of the model *)

MaxCalls == 3
MaxQueue == 1
MaxWindows == 4
MaxTime == MaxWindows * DEDUP_WINDOW
MaxSweeps == 2

\* Caller threads, worker threads that can be spawned, sinks that can be bound
Threads == {1, 2}
Workers == {1, 2}
Sinks == {1, 2}

----------------------------------------------------------------------------
(* Paths and strings *)

\* An override path is a sequence of characters.
WS == {" "}

RECURSIVE TrimStart(_)
TrimStart(s) ==
    IF s # <<>> /\ Head(s) \in WS THEN TrimStart(Tail(s)) ELSE s

RECURSIVE TrimEnd(_)
TrimEnd(s) ==
    IF s # <<>> /\ s[Len(s)] \in WS THEN TrimEnd(SubSeq(s, 1, Len(s) - 1)) ELSE s

\* str::trim
Trim(s) == TrimEnd(TrimStart(s))

\* Path::is_absolute (Unix): the path has a root
is_absolute(p) == p # <<>> /\ Head(p) = "/"

None == [some |-> FALSE]
Some(v) == [some |-> TRUE, val |-> v]

\* desktop_dir().join(DEFAULT_WATCH_FOLDER_NAME)
DefaultWatchDir == <<"/", "D", "/", "L">>

\* ensure_override_dir with the absolute-path test applied to the trimmed text
ensure_override_dir_Trimmed(override_path) ==
    IF Trim(override_path) = <<>> THEN [err |-> "InvalidPath", dir |-> <<>>]
    ELSE IF ~(Trim(override_path) # <<>> /\ Head(Trim(override_path)) = "/")
         THEN [err |-> "InvalidPath", dir |-> <<>>]
         ELSE [err |-> "", dir |-> override_path]

\* The result of ensure_override_dir before the directory is created:
\* Err(InvalidPath) or the path to create.
ensure_override_dir(override_path) ==
    IF Trim(override_path) = <<>> THEN [err |-> "InvalidPath", dir |-> <<>>]
    ELSE IF ~is_absolute(override_path)
         THEN [err |-> "InvalidPath", dir |-> <<>>]
         ELSE [err |-> "", dir |-> override_path]

\* The override paths callers pass
Overrides ==
    { None, Some(<<>>), Some(<<" ">>), Some(<<"r", "/", "p">>),
      Some(<<" ", "/", "w">>), Some(<<"/", "w">>) }

----------------------------------------------------------------------------
(* Event classifier *)

Kinds ==
    { "create_file", "create_any", "create_folder", "create_other",
      "modify", "remove", "access", "other", "any" }

\* The classifier taking a modification (a rename) for an addition
is_create_file_event_Modify(kind) ==
    kind \notin {"remove", "access", "other", "any"}

is_create_file_event(kind) ==
    CASE kind = "create_file" -> TRUE
      [] kind = "create_any" -> TRUE
      [] kind = "modify" -> FALSE
      [] kind = "remove" -> FALSE
      [] kind = "access" -> FALSE
      [] kind = "other" -> FALSE
      [] kind = "any" -> FALSE
      [] OTHER -> TRUE

\* std::fs::metadata(path) is Ok and is_file()
is_regular_file(path) == path \in files

\* Paths whose last component is not valid UTF-8: file_name().to_str() is None
NoFileName == {0}

\* make_internal_file_event(path) is Ok
make_internal_file_event(path) == path \notin NoFileName

----------------------------------------------------------------------------
(* Dedup / rate engine: the body of `for path in event.paths` *)

EmptyMap == <<>>

MapInsert(m, k, v) == [x \in (DOMAIN m) \cup {k} |-> IF x = k THEN v ELSE m[x]]

\* u32::saturating_add(x, 1).  The counters stay far below u32::MAX (the
\* cleanup counter below 100, the event count below the candidates of one
\* window), so the saturation point is never reached.
saturating_add(x) == x + 1

\* Instant::duration_since (saturates at zero)
duration_since(later, earlier) == IF later >= earlier THEN later - earlier ELSE 0

\* The dedup test with the window boundary included
DedupSuppressed_Inclusive(last_seen, key, t) ==
    /\ key \in DOMAIN last_seen
    /\ t - last_seen[key] <= DEDUP_WINDOW

\* lines 171-179: the candidate is a duplicate inside the dedup window
DedupSuppressed(last_seen, key, t) ==
    /\ key \in DOMAIN last_seen
    /\ duration_since(t, last_seen[key]) < DEDUP_WINDOW

\* The sweep condition with && for ||
SweepDue_Both(last_seen, cleanup_counter) ==
    /\ Cardinality(DOMAIN last_seen) > DEDUP_MAP_MAX_SIZE
    /\ cleanup_counter >= CLEANUP_EVERY

\* lines 185-186: the condition of the sweep
SweepDue(last_seen, cleanup_counter) ==
    \/ Cardinality(DOMAIN last_seen) > DEDUP_MAP_MAX_SIZE
    \/ cleanup_counter >= CLEANUP_EVERY

\* The sweep keeping an entry that is exactly ten windows old
Retain_Inclusive(last_seen, t) ==
    [k \in {x \in DOMAIN last_seen : t - last_seen[x] <= DEDUP_WINDOW * 10}
        |-> last_seen[k]]

\* lines 189-191: last_seen.retain(...)
Retain(last_seen, t) ==
    [k \in {x \in DOMAIN last_seen :
                duration_since(t, last_seen[x]) < DEDUP_WINDOW * 10}
        |-> last_seen[k]]

\* line 203: the rate window is over
WindowElapsed(started_at, t) == duration_since(t, started_at) >= RATE_WINDOW

\* The ceiling test off by one
WithinLimit_Strict(count) == count < RATE_LIMIT_PER_SECOND

\* line 209: the event is within the ceiling
WithinLimit(count) == count <= RATE_LIMIT_PER_SECOND

Bump(m, t) == MapInsert(m, t, IF t \in DOMAIN m THEN m[t] + 1 ELSE 1)

NoEvent == [path |-> -1, occurred_at_ms |-> 0]
NoOut == [path |-> -1, at |-> 0, outcome |-> "none", prev |-> -1,
          size |-> 0, swept |-> FALSE, reset |-> FALSE]

PrevAccepted(s, path) ==
    IF path \in DOMAIN s.accepted THEN s.accepted[path] ELSE -1

Skip(s, path, t, why) ==
    [s EXCEPT !.out = [NoOut EXCEPT !.path = path, !.at = t, !.outcome = why,
                                    !.prev = PrevAccepted(s, path)]]

\* The thread ends: stop_rx, event_rx (with what is queued) and the watcher
\* are dropped
Exit(s, how) ==
    [s EXCEPT !.pc = how, !.queue = <<>>, !.cur = <<>>, !.stop_q = 0,
              !.ev = NoEvent]

\* lines 126-128 and 132-137: the subscription failed, `return`
StartFailed(s, t) ==
    [Exit(s, "finished") EXCEPT !.out = [NoOut EXCEPT !.at = t,
                                                     !.outcome = "start_failed"]]

\* The loop body with the rate window and counter updated before the dedup
\* test, so that a duplicate spends rate budget
ProcessPath_RateFirst(s, path, t) ==
    IF ~is_regular_file(path) THEN Skip(s, path, t, "not_file")
    ELSE IF ~make_internal_file_event(path) THEN Skip(s, path, t, "no_name")
    ELSE
      LET reset == WindowElapsed(s.second_window_started_at, t)
          count == saturating_add(IF reset THEN 0 ELSE s.second_event_count)
          r == [s EXCEPT !.second_window_started_at = IF reset THEN t ELSE @,
                         !.second_event_count = count]
      IN IF DedupSuppressed(s.last_seen, path, t) THEN Skip(r, path, t, "dedup")
         ELSE
           LET inserted == MapInsert(s.last_seen, path, t)
               counted == saturating_add(s.cleanup_counter)
               sweep == SweepDue(inserted, counted)
               kept == IF sweep THEN Retain(inserted, t) ELSE inserted
               fwd == WithinLimit(count)
           IN [r EXCEPT
                 !.last_seen = kept,
                 !.cleanup_counter = IF sweep THEN 0 ELSE counted,
                 !.ev = IF fwd THEN [path |-> path, occurred_at_ms |-> t]
                        ELSE NoEvent,
                 !.sinkCalls = IF fwd THEN @ + 1 ELSE @,
                 !.forwarded = IF fwd THEN @ \cup {path} ELSE @,
                 !.accepted = MapInsert(@, path, t),
                 !.passedAt = Bump(@, t),
                 !.fwdAt = IF fwd THEN Bump(@, t) ELSE @,
                 !.out = [path |-> path, at |-> t,
                          outcome |-> IF fwd THEN "forwarded" ELSE "rate_limited",
                          prev |-> PrevAccepted(s, path),
                          size |-> Cardinality(DOMAIN inserted),
                          swept |-> sweep, reset |-> reset]]

\* The loop body recording in the dedup map only what it forwards
ProcessPath_InsertOnForward(s, path, t) ==
    IF ~is_regular_file(path) THEN Skip(s, path, t, "not_file")
    ELSE IF ~make_internal_file_event(path) THEN Skip(s, path, t, "no_name")
    ELSE IF DedupSuppressed(s.last_seen, path, t) THEN Skip(s, path, t, "dedup")
    ELSE
      LET inserted == MapInsert(s.last_seen, path, t)
          counted == saturating_add(s.cleanup_counter)
          sweep == SweepDue(inserted, counted)
          kept == IF sweep THEN Retain(inserted, t) ELSE inserted
          reset == WindowElapsed(s.second_window_started_at, t)
          count == saturating_add(IF reset THEN 0 ELSE s.second_event_count)
          fwd == WithinLimit(count)
      IN [s EXCEPT
            !.last_seen = IF fwd THEN kept ELSE @,
            !.cleanup_counter = IF sweep THEN 0 ELSE counted,
            !.second_window_started_at = IF reset THEN t ELSE @,
            !.second_event_count = count,
            !.ev = IF fwd THEN [path |-> path, occurred_at_ms |-> t] ELSE NoEvent,
            !.sinkCalls = IF fwd THEN @ + 1 ELSE @,
            !.forwarded = IF fwd THEN @ \cup {path} ELSE @,
            !.accepted = MapInsert(@, path, t),
            !.passedAt = Bump(@, t),
            !.fwdAt = IF fwd THEN Bump(@, t) ELSE @,
            !.out = [path |-> path, at |-> t,
                     outcome |-> IF fwd THEN "forwarded" ELSE "rate_limited",
                     prev |-> PrevAccepted(s, path),
                     size |-> Cardinality(DOMAIN inserted),
                     swept |-> sweep, reset |-> reset]]

\* The loop body refreshing the instant of a path on every duplicate
ProcessPath_RefreshOnDup(s, path, t) ==
    IF ~is_regular_file(path) THEN Skip(s, path, t, "not_file")
    ELSE IF ~make_internal_file_event(path) THEN Skip(s, path, t, "no_name")
    ELSE IF DedupSuppressed(s.last_seen, path, t)
         THEN [Skip(s, path, t, "dedup") EXCEPT
                  !.last_seen = MapInsert(s.last_seen, path, t)]
    ELSE
      LET inserted == MapInsert(s.last_seen, path, t)
          counted == saturating_add(s.cleanup_counter)
          sweep == SweepDue(inserted, counted)
          kept == IF sweep THEN Retain(inserted, t) ELSE inserted
          reset == WindowElapsed(s.second_window_started_at, t)
          count == saturating_add(IF reset THEN 0 ELSE s.second_event_count)
          fwd == WithinLimit(count)
      IN [s EXCEPT
            !.last_seen = kept,
            !.cleanup_counter = IF sweep THEN 0 ELSE counted,
            !.second_window_started_at = IF reset THEN t ELSE @,
            !.second_event_count = count,
            !.ev = IF fwd THEN [path |-> path, occurred_at_ms |-> t] ELSE NoEvent,
            !.sinkCalls = IF fwd THEN @ + 1 ELSE @,
            !.forwarded = IF fwd THEN @ \cup {path} ELSE @,
            !.accepted = MapInsert(@, path, t),
            !.passedAt = Bump(@, t),
            !.fwdAt = IF fwd THEN Bump(@, t) ELSE @,
            !.out = [path |-> path, at |-> t,
                     outcome |-> IF fwd THEN "forwarded" ELSE "rate_limited",
                     prev |-> PrevAccepted(s, path),
                     size |-> Cardinality(DOMAIN inserted),
                     swept |-> sweep, reset |-> reset]]

\* One iteration of the loop over event.paths at instant t.  The clock reads
\* of one iteration (Instant::now at line 170, elapsed() at line 203,
\* Instant::now at line 204) fall within the same millisecond.
ProcessPath(s, path, t) ==
    IF ~is_regular_file(path) THEN Skip(s, path, t, "not_file")
    ELSE IF ~make_internal_file_event(path) THEN Skip(s, path, t, "no_name")
    ELSE IF DedupSuppressed(s.last_seen, path, t) THEN Skip(s, path, t, "dedup")
    ELSE
      LET inserted == MapInsert(s.last_seen, path, t)
          counted == saturating_add(s.cleanup_counter)
          sweep == SweepDue(inserted, counted)
          kept == IF sweep THEN Retain(inserted, t) ELSE inserted
          reset == WindowElapsed(s.second_window_started_at, t)
          count == saturating_add(IF reset THEN 0 ELSE s.second_event_count)
          fwd == WithinLimit(count)
      IN [s EXCEPT
            !.last_seen = kept,
            !.cleanup_counter = IF sweep THEN 0 ELSE counted,
            !.second_window_started_at = IF reset THEN t ELSE @,
            !.second_event_count = count,
            !.ev = IF fwd THEN [path |-> path, occurred_at_ms |-> t] ELSE NoEvent,
            !.sinkCalls = IF fwd THEN @ + 1 ELSE @,
            !.forwarded = IF fwd THEN @ \cup {path} ELSE @,
            !.accepted = MapInsert(@, path, t),
            !.passedAt = Bump(@, t),
            !.fwdAt = IF fwd THEN Bump(@, t) ELSE @,
            !.out = [path |-> path, at |-> t,
                     outcome |-> IF fwd THEN "forwarded" ELSE "rate_limited",
                     prev |-> PrevAccepted(s, path),
                     size |-> Cardinality(DOMAIN inserted),
                     swept |-> sweep, reset |-> reset]]

----------------------------------------------------------------------------
(* State *)

NoHolder == <<>>
WorkerHolder(w) == <<"worker", w>>

Unborn ==
    [pc |-> "unborn", dir |-> <<>>, stop_q |-> 0, stop_tx |-> "live",
     queue |-> <<>>, cur |-> <<>>, ev |-> NoEvent,
     last_seen |-> EmptyMap, second_window_started_at |-> 0,
     second_event_count |-> 0, cleanup_counter |-> 0,
     accepted |-> EmptyMap, passedAt |-> EmptyMap, fwdAt |-> EmptyMap,
     sinkCalls |-> 0, forwarded |-> {}, out |-> NoOut]

IdleThread ==
    [pc |-> "idle", op |-> "none", arg |-> None, h |-> 0, sent |-> "none",
     res |-> "none", dir |-> <<>>, ret |-> "none"]

\* The worker thread is alive: spawned and not yet exited
Alive(w) == wk[w].pc \notin {"unborn", "finished", "panicked"}

\* The worker holds its subscription to the raw event source
Subscribed(w) == wk[w].pc \in {"check_stop", "recv", "paths", "emit", "emit_locked"}

Init ==
    /\ WATCHER = 0
    /\ watcherLock = 0
    /\ FILE_ADDED_SINK = 0
    /\ sinkLock = NoHolder
    /\ th = [t \in Threads |-> IdleThread]
    /\ wk = [w \in Workers |-> Unborn]
    /\ now = 0
    /\ files = {0, 1}
    /\ dirs = {}
    /\ calls = 0
    /\ nextWorker = 1
    /\ nextSink = 1
    /\ closed = {}
    /\ delivered = [s \in Sinks |-> 0]
    /\ stopReturned = {}

----------------------------------------------------------------------------
(* start_watching, api.rs:85-119 *)

Return(t, op, ret, dir) ==
    [th EXCEPT ![t] = [IdleThread EXCEPT !.op = op, !.ret = ret, !.dir = dir]]

\* start_watching without the test of the slot
SlotOccupied_Unchecked == FALSE

\* start_watching testing the slot for a worker that is alive
SlotOccupied_AliveOnly == WATCHER # 0 /\ Alive(WATCHER)

\* line 93: guard.is_some()
SlotOccupied == WATCHER # 0

\* lines 90-95: lock WATCHER; a held handle fails the call, the guard is dropped
SwBegin(t, override) ==
    /\ th[t].pc = "idle"
    /\ calls < MaxCalls
    /\ WATCHER # 0 \/ nextWorker \in Workers
    /\ watcherLock = 0
    /\ calls' = calls + 1
    /\ IF SlotOccupied
       THEN /\ th' = Return(t, "start_watching", "WatcherAlreadyRunning", <<>>)
            /\ UNCHANGED watcherLock
       ELSE /\ th' = [th EXCEPT ![t] = [IdleThread EXCEPT !.pc = "sw_start",
                                           !.op = "start_watching",
                                           !.arg = override]]
            /\ watcherLock' = t
    /\ UNCHANGED <<WATCHER, FILE_ADDED_SINK, sinkLock, wk, now, files, dirs,
                   nextWorker, nextSink, closed, delivered, stopReturned>>

\* start_watcher lines 105-108: the directory to watch, before it is created
ResolveWatchDir(override, desktop_ok) ==
    IF override.some THEN ensure_override_dir(override.val)
    ELSE IF desktop_ok THEN [err |-> "", dir |-> DefaultWatchDir]
         ELSE [err |-> "DesktopDirNotFound", dir |-> <<>>]

\* The directory made with create_dir, which refuses one that exists
create_dir_all_Exclusive(p, io_ok) == p \notin dirs /\ io_ok

\* std::fs::create_dir_all(&p) is Ok: always for a directory that exists,
\* otherwise when the file system lets it be made
create_dir_all(p, io_ok) == p \in dirs \/ io_ok

\* start_watcher lines 105-116: resolve and create the directory, spawn the
\* worker; an error leaves start_watching by `?` and drops the guard
SwStart(t) ==
    /\ th[t].pc = "sw_start"
    /\ \E desktop_ok \in BOOLEAN, io_ok \in BOOLEAN :
         LET r == ResolveWatchDir(th[t].arg, desktop_ok)
             err == IF r.err # "" THEN r.err
                    ELSE IF create_dir_all(r.dir, io_ok) THEN "" ELSE "Io"
             w == nextWorker
         IN IF err # ""
            THEN /\ th' = Return(t, "start_watching", err, <<>>)
                 /\ watcherLock' = 0
                 /\ UNCHANGED <<wk, dirs, nextWorker>>
            ELSE /\ dirs' = dirs \cup {r.dir}
                 /\ wk' = [wk EXCEPT ![w] = [Unborn EXCEPT !.pc = "starting",
                                                           !.dir = r.dir]]
                 /\ nextWorker' = w + 1
                 /\ th' = [th EXCEPT ![t].pc = "sw_store", ![t].h = w,
                                     ![t].dir = r.dir]
                 /\ UNCHANGED watcherLock
    /\ UNCHANGED <<WATCHER, FILE_ADDED_SINK, sinkLock, now, files, calls,
                   nextSink, closed, delivered, stopReturned>>

\* lines 116-118: store the handle, return the directory, drop the guard
SwStore(t) ==
    /\ th[t].pc = "sw_store"
    /\ WATCHER' = th[t].h
    /\ watcherLock' = 0
    /\ th' = Return(t, "start_watching", "Ok", th[t].dir)
    /\ UNCHANGED <<FILE_ADDED_SINK, sinkLock, wk, now, files, dirs,
                   calls, nextWorker, nextSink, closed, delivered,
                   stopReturned>>

----------------------------------------------------------------------------
(* stop_watching, api.rs:122-143, with WatcherHandle::stop, mod.rs:51-72 *)

\* stop_watching locking the subscriber slot on entry and keeping the guard
\* while it stops the watcher
StBegin_HoldSink(t) ==
    /\ th[t].pc = "idle"
    /\ calls < MaxCalls
    /\ watcherLock = 0
    /\ sinkLock = NoHolder
    /\ sinkLock' = <<"thread", t>>
    /\ calls' = calls + 1
    /\ WATCHER' = 0
    /\ th' = [th EXCEPT ![t] = [IdleThread EXCEPT
                  !.pc = IF WATCHER # 0 THEN "st_send" ELSE "st_close",
                  !.op = "stop_watching", !.h = WATCHER]]
    /\ UNCHANGED <<watcherLock, FILE_ADDED_SINK, wk, now, files,
                   dirs, nextWorker, nextSink, closed,
                   delivered, stopReturned>>

\* lines 129-134: take the handle out of the slot under the lock
StBegin(t) ==
    /\ th[t].pc = "idle"
    /\ calls < MaxCalls
    /\ watcherLock = 0
    /\ calls' = calls + 1
    /\ WATCHER' = 0
    /\ th' = [th EXCEPT ![t] = [IdleThread EXCEPT
                  !.pc = IF WATCHER # 0 THEN "st_send" ELSE "st_close",
                  !.op = "stop_watching", !.h = WATCHER]]
    /\ UNCHANGED <<watcherLock, FILE_ADDED_SINK, sinkLock, wk, now, files,
                   dirs, nextWorker, nextSink, closed,
                   delivered, stopReturned>>

\* stop_watching closing the subscriber stream before it stops the watcher
StSend_CloseFirst(t) ==
    /\ th[t].pc = "st_send"
    /\ sinkLock = NoHolder
    /\ LET w == th[t].h
       IN wk' = IF Alive(w) THEN [wk EXCEPT ![w].stop_q = @ + 1] ELSE wk
    /\ th' = [th EXCEPT ![t].pc = "st_join",
                        ![t].sent = IF Alive(th[t].h) THEN "ok" ELSE "err"]
    /\ closed' = IF FILE_ADDED_SINK # 0
                 THEN closed \cup {FILE_ADDED_SINK} ELSE closed
    /\ FILE_ADDED_SINK' = 0
    /\ UNCHANGED <<WATCHER, watcherLock, sinkLock, now, files,
                   dirs, calls, nextWorker, nextSink,
                   delivered, stopReturned>>

\* mod.rs:54-57: stop_tx.send(()); an Err (receiver gone) is only logged
StSend(t) ==
    /\ th[t].pc = "st_send"
    /\ LET w == th[t].h
       IN wk' = IF Alive(w) THEN [wk EXCEPT ![w].stop_q = @ + 1] ELSE wk
    /\ th' = [th EXCEPT ![t].pc = "st_join",
                        ![t].sent = IF Alive(th[t].h) THEN "ok" ELSE "err"]
    /\ UNCHANGED <<WATCHER, watcherLock, FILE_ADDED_SINK, sinkLock, now, files,
                   dirs, calls, nextWorker, nextSink, closed,
                   delivered, stopReturned>>

\* stop() without waiting for the worker thread
JoinReturns_NoWait(w) == TRUE

\* mod.rs:60-61: join.join() returns once the worker thread has ended
JoinReturns(w) == ~Alive(w)

\* stop() reporting a failed send or a panicked worker as an error
StopOutcome_Strict(sent, panicked) ==
    IF panicked THEN "WorkerPanicked"
    ELSE IF sent = "err" THEN "StreamClosed" ELSE "Ok"

\* mod.rs:54-70: the result of WatcherHandle::stop, given the result of the
\* send and whether the joined thread had panicked
StopOutcome(sent, panicked) == "Ok"

\* mod.rs:60-70: join; a panic payload is logged; Ok(()); the handle is dropped
StJoin(t) ==
    /\ th[t].pc = "st_join"
    /\ JoinReturns(th[t].h)
    /\ wk' = [wk EXCEPT ![th[t].h].stop_tx = "dropped"]
    /\ stopReturned' = stopReturned \cup {th[t].h}
    /\ th' = [th EXCEPT ![t].pc = "st_close",
                        ![t].res = StopOutcome(th[t].sent,
                                               wk[th[t].h].pc = "panicked")]
    /\ UNCHANGED <<WATCHER, watcherLock, FILE_ADDED_SINK, sinkLock, now, files,
                   dirs, calls, nextWorker, nextSink, closed,
                   delivered>>

\* api.rs:136-142: `h.stop()?` returns an Err of stop at once; otherwise (and
\* when no handle was held) the stream is closed and the result is Ok(())
StopWatchingResult(h, res) == IF h # 0 /\ res # "Ok" THEN res ELSE "Ok"

\* api.rs:136-142 with close_file_added_stream, api.rs:35-46
StClose(t) ==
    /\ th[t].pc = "st_close"
    /\ LET ret == StopWatchingResult(th[t].h, th[t].res)
       IN /\ th' = [th EXCEPT ![t] = [IdleThread EXCEPT
                         !.op = "stop_watching", !.h = th[t].h,
                         !.sent = th[t].sent, !.res = th[t].res, !.ret = ret]]
          /\ IF ret = "Ok"
             THEN /\ sinkLock = NoHolder
                  /\ closed' = IF FILE_ADDED_SINK # 0
                               THEN closed \cup {FILE_ADDED_SINK} ELSE closed
                  /\ FILE_ADDED_SINK' = 0
             ELSE UNCHANGED <<closed, FILE_ADDED_SINK>>
    /\ UNCHANGED <<WATCHER, watcherLock, sinkLock, wk, now, files, dirs, calls,
                   nextWorker, nextSink, stopReturned, delivered>>

----------------------------------------------------------------------------
(* on_file_added, api.rs:63-77 *)

Subscribe(t) ==
    /\ th[t].pc = "idle"
    /\ calls < MaxCalls
    /\ nextSink \in Sinks
    /\ sinkLock = NoHolder
    /\ calls' = calls + 1
    /\ closed' = IF FILE_ADDED_SINK # 0 THEN closed \cup {FILE_ADDED_SINK}
                 ELSE closed
    /\ FILE_ADDED_SINK' = nextSink
    /\ nextSink' = nextSink + 1
    /\ th' = Return(t, "on_file_added", "Ok", <<>>)
    /\ UNCHANGED <<WATCHER, watcherLock, sinkLock, wk, now, files, dirs,
                   nextWorker, stopReturned, delivered>>

----------------------------------------------------------------------------
(* The worker thread, mod.rs:116-239 *)

StartOutcomes == {"ok", "watcher_failed", "watch_failed"}

\* The worker going on into its loop after a failed subscription (the
\* failure only logged)
WorkerStart_FallThrough(w) ==
    /\ wk[w].pc = "starting"
    /\ \E o \in StartOutcomes :
         wk' = [wk EXCEPT ![w] =
                  [@ EXCEPT !.pc = "check_stop",
                            !.second_window_started_at = now,
                            !.out = IF o = "ok" THEN @
                                    ELSE [NoOut EXCEPT !.at = now,
                                             !.outcome = "start_failed"]]]
    /\ UNCHANGED <<WATCHER, watcherLock, FILE_ADDED_SINK, sinkLock, th, now,
                   files, dirs, calls, nextWorker, nextSink,
                   closed, delivered, stopReturned>>

\* lines 117-144: create the watcher, subscribe, initialise the engine state
WorkerStart(w) ==
    /\ wk[w].pc = "starting"
    /\ \E o \in StartOutcomes :
         wk' = [wk EXCEPT ![w] =
                  IF o = "ok"
                  THEN [@ EXCEPT !.pc = "check_stop",
                                 !.last_seen = EmptyMap,
                                 !.second_window_started_at = now,
                                 !.second_event_count = 0,
                                 !.cleanup_counter = 0]
                  ELSE StartFailed(@, now)]
    /\ UNCHANGED <<WATCHER, watcherLock, FILE_ADDED_SINK, sinkLock, th, now,
                   files, dirs, calls, nextWorker, nextSink,
                   closed, delivered, stopReturned>>

\* The stop check taking a disconnected stop channel for a stop signal
StopRequested_OnDisconnect(s) == s.stop_q > 0 \/ s.stop_tx = "dropped"

\* line 148: stop_rx.try_recv().is_ok()
StopRequested(s) == s.stop_q > 0

\* The stop check honoured only when no notification is queued
CheckStop_WhenIdle(w) ==
    /\ wk[w].pc = "check_stop"
    /\ wk' = [wk EXCEPT ![w] = IF StopRequested(@) /\ @.queue = <<>>
                               THEN Exit(@, "finished")
                               ELSE [@ EXCEPT !.pc = "recv"]]
    /\ UNCHANGED <<WATCHER, watcherLock, FILE_ADDED_SINK, sinkLock, th, now,
                   files, dirs, calls, nextWorker, nextSink,
                   closed, delivered, stopReturned>>

\* lines 147-151
CheckStop(w) ==
    /\ wk[w].pc = "check_stop"
    /\ wk' = [wk EXCEPT ![w] = IF StopRequested(@) THEN Exit(@, "finished")
                               ELSE [@ EXCEPT !.pc = "recv"]]
    /\ UNCHANGED <<WATCHER, watcherLock, FILE_ADDED_SINK, sinkLock, th, now,
                   files, dirs, calls, nextWorker, nextSink,
                   closed, delivered, stopReturned>>

\* lines 113-123: the closure owns event_tx (and the watcher a clone of it)
\* until the thread ends
event_tx_alive(s) == s.pc \notin {"unborn", "finished", "panicked"}

\* Where the loop goes after one path of the current notification
AfterPath(rest) == IF rest = <<>> THEN "check_stop" ELSE "paths"

\* A wait for the next notification without a timeout
TimeoutElapses_Never == FALSE

\* line 154: recv_timeout returns after 50 ms when nothing arrives
TimeoutElapses == TRUE

\* The wait for a notification with a source error ending the loop
Recv_ErrorFatal(w) ==
    /\ wk[w].pc = "recv"
    /\ wk[w].queue # <<>> \/ TimeoutElapses
    /\ wk' = [wk EXCEPT ![w] =
         IF @.queue # <<>>
         THEN LET n == Head(@.queue)
              IN IF n.kind = "error" THEN Exit(@, "finished")
                 ELSE IF ~is_create_file_event(n.kind) THEN
                     [@ EXCEPT !.queue = Tail(@), !.pc = "check_stop"]
                 ELSE
                     [@ EXCEPT !.queue = Tail(@), !.cur = n.paths,
                               !.pc = AfterPath(n.paths)]
         ELSE [@ EXCEPT !.pc = "check_stop"]]
    /\ UNCHANGED <<WATCHER, watcherLock, FILE_ADDED_SINK, sinkLock, th, now,
                   files, dirs, calls, nextWorker, nextSink,
                   closed, delivered, stopReturned>>

\* lines 154-160 and 225-235: event_rx.recv_timeout(50 ms)
Recv(w) ==
    /\ wk[w].pc = "recv"
    /\ wk[w].queue # <<>> \/ TimeoutElapses
    /\ wk' = [wk EXCEPT ![w] =
         IF @.queue # <<>>
         THEN LET n == Head(@.queue)
              IN IF n.kind = "error" THEN
                     [@ EXCEPT !.queue = Tail(@), !.pc = "check_stop"]
                 ELSE IF ~is_create_file_event(n.kind) THEN
                     [@ EXCEPT !.queue = Tail(@), !.pc = "check_stop"]
                 ELSE
                     [@ EXCEPT !.queue = Tail(@), !.cur = n.paths,
                               !.pc = AfterPath(n.paths)]
         ELSE IF event_tx_alive(@) THEN [@ EXCEPT !.pc = "check_stop"]
              ELSE Exit(@, "finished")]
    /\ UNCHANGED <<WATCHER, watcherLock, FILE_ADDED_SINK, sinkLock, th, now,
                   files, dirs, calls, nextWorker, nextSink,
                   closed, delivered, stopReturned>>

\* The loop over the paths left by `break` when a path is skipped
Process_AbortBatch(w) ==
    /\ wk[w].pc = "paths"
    /\ LET s == ProcessPath(wk[w], Head(wk[w].cur), now)
           skipped == s.out.outcome \in {"not_file", "no_name", "dedup"}
           rest == IF skipped THEN <<>> ELSE Tail(wk[w].cur)
       IN wk' = [wk EXCEPT ![w] =
                   [s EXCEPT !.cur = rest,
                             !.pc = IF s.out.outcome = "forwarded" THEN "emit"
                                    ELSE AfterPath(rest)]]
    /\ UNCHANGED <<WATCHER, watcherLock, FILE_ADDED_SINK, sinkLock, th, now,
                   files, dirs, calls, nextWorker, nextSink,
                   closed, delivered, stopReturned>>

\* lines 161-223: one path of the notification; on_added(e) is entered when
\* the event survives
Process(w) ==
    /\ wk[w].pc = "paths"
    /\ LET s == ProcessPath(wk[w], Head(wk[w].cur), now)
           rest == Tail(wk[w].cur)
       IN wk' = [wk EXCEPT ![w] =
                   [s EXCEPT !.cur = rest,
                             !.pc = IF s.out.outcome = "forwarded" THEN "emit"
                                    ELSE AfterPath(rest)]]
    /\ UNCHANGED <<WATCHER, watcherLock, FILE_ADDED_SINK, sinkLock, th, now,
                   files, dirs, calls, nextWorker, nextSink,
                   closed, delivered, stopReturned>>

\* api.rs:99-101: the callback locks FILE_ADDED_SINK
EmitLock(w) ==
    /\ wk[w].pc = "emit"
    /\ sinkLock = NoHolder
    /\ sinkLock' = WorkerHolder(w)
    /\ wk' = [wk EXCEPT ![w].pc = "emit_locked"]
    /\ UNCHANGED <<WATCHER, watcherLock, FILE_ADDED_SINK, th, now, files,
                   dirs, calls, nextWorker, nextSink, closed,
                   delivered, stopReturned>>

\* api.rs:102-113: sink.add(event) when a sink is bound, else the event is
\* dropped (only logged); the guard is released.  A panic inside sink.add
\* ends the worker thread.
SinkAddPanics == IF FILE_ADDED_SINK # 0 THEN BOOLEAN ELSE {FALSE}

\* The callback delivering to the sink that was bound first, as if the sink
\* were captured when the watcher started
EmitDeliver_FirstSink(w) ==
    /\ wk[w].pc = "emit_locked"
    /\ sinkLock' = NoHolder
    /\ delivered' = IF FILE_ADDED_SINK # 0
                    THEN [delivered EXCEPT ![1] = @ + 1] ELSE delivered
    /\ wk' = [wk EXCEPT ![w] = [@ EXCEPT !.ev = NoEvent,
                                         !.pc = AfterPath(wk[w].cur)]]
    /\ UNCHANGED <<WATCHER, watcherLock, FILE_ADDED_SINK, th, now, files,
                   dirs, calls, nextWorker, nextSink, closed,
                   stopReturned>>

EmitDeliver(w) ==
    /\ wk[w].pc = "emit_locked"
    /\ sinkLock' = NoHolder
    /\ \E panics \in SinkAddPanics :
         /\ delivered' = IF FILE_ADDED_SINK # 0 /\ ~panics
                         THEN [delivered EXCEPT ![FILE_ADDED_SINK] = @ + 1]
                         ELSE delivered
         /\ wk' = [wk EXCEPT ![w] =
                     IF panics THEN Exit(@, "panicked")
                     ELSE [@ EXCEPT !.ev = NoEvent,
                                    !.pc = AfterPath(wk[w].cur)]]
    /\ UNCHANGED <<WATCHER, watcherLock, FILE_ADDED_SINK, th, now, files,
                   dirs, calls, nextWorker, nextSink, closed,
                   stopReturned>>

----------------------------------------------------------------------------
(* The environment: the file system, the raw event source, the clock *)

Notification(kind, paths) == [kind |-> kind, paths |-> paths]

HasRoom(w) == Len(wk[w].queue) < MaxQueue

\* The raw notifications the event source delivers to the API's workers
RawNotifications ==
    {Notification("create_file", <<1>>), Notification("modify", <<1>>)}

\* mod.rs:119-123: the watcher's callback sends n into the event channel
Deliver(w, n) ==
    /\ Subscribed(w)
    /\ HasRoom(w)
    /\ wk' = [wk EXCEPT ![w].queue = Append(@, n)]
    /\ UNCHANGED <<WATCHER, watcherLock, FILE_ADDED_SINK, sinkLock, th, now,
                   files, dirs, calls, nextWorker, nextSink, closed,
                   delivered, stopReturned>>

\* The monotonic clock advances by d ms
Tick(d) ==
    /\ now + d <= MaxTime
    /\ now' = now + d
    /\ UNCHANGED <<WATCHER, watcherLock, FILE_ADDED_SINK, sinkLock, th, wk,
                   files, dirs, calls, nextWorker, nextSink, closed,
                   delivered, stopReturned>>

----------------------------------------------------------------------------
(* The API and the workers under concurrent callers *)

WorkerStep(w) ==
    \/ WorkerStart(w)
    \/ CheckStop(w)
    \/ Recv(w)
    \/ Process(w)
    \/ EmitLock(w)
    \/ EmitDeliver(w)

Next ==
    \/ \E t \in Threads, o \in Overrides : SwBegin(t, o)
    \/ \E t \in Threads : SwStart(t)
    \/ \E t \in Threads : SwStore(t)
    \/ \E t \in Threads : StBegin(t)
    \/ \E t \in Threads : StSend(t)
    \/ \E t \in Threads : StJoin(t)
    \/ \E t \in Threads : StClose(t)
    \/ \E t \in Threads : Subscribe(t)
    \/ \E w \in Workers : WorkerStep(w)
    \/ \E w \in Workers, n \in RawNotifications : Deliver(w, n)

Spec == Init /\ [][Next]_vars

----------------------------------------------------------------------------
(* The dedup / rate engine of one running worker under bursts.             *)
(* start_watching(Some("/w")) and on_file_added have returned; the files   *)
(* of the watch directory exist and the raw source reports creations of    *)
(* them, one path or a whole burst per notification.                       *)

BurstSize == RATE_LIMIT_PER_SECOND + 1
Burst == [i \in 1..BurstSize |-> i]

InitEngine ==
    /\ WATCHER = 1
    /\ watcherLock = 0
    /\ FILE_ADDED_SINK = 1
    /\ sinkLock = NoHolder
    /\ th = [t \in Threads |->
               IF t = 1 THEN [IdleThread EXCEPT !.op = "start_watching",
                                                !.ret = "Ok",
                                                !.dir = <<"/", "w">>]
               ELSE IdleThread]
    /\ wk = [w \in Workers |->
               IF w = 1 THEN [Unborn EXCEPT !.pc = "starting",
                                            !.dir = <<"/", "w">>]
               ELSE Unborn]
    /\ now = 0
    /\ files = 1..BurstSize
    /\ dirs = {<<"/", "w">>}
    /\ calls = 2
    /\ nextWorker = 2
    /\ nextSink = 2
    /\ closed = {}
    /\ delivered = [s \in Sinks |-> 0]
    /\ stopReturned = {}

\* The worker waits in recv_timeout with nothing queued
Waiting(w) == wk[w].pc = "recv" /\ wk[w].queue = <<>>

\* The next notification arrives while the worker waits for one
EngineNotify(paths) ==
    /\ Waiting(1)
    /\ wk' = [wk EXCEPT ![1].queue = <<Notification("create_file", paths)>>]
    /\ UNCHANGED <<WATCHER, watcherLock, FILE_ADDED_SINK, sinkLock, th, now,
                   files, dirs, calls, nextWorker, nextSink,
                   closed, delivered, stopReturned>>

\* Time passes between two notifications
EngineTick(d) ==
    /\ Waiting(1)
    /\ Tick(d)

\* Single paths and pairs, 100 ms apart: the dedup window
DedupBatches == {<<1>>, <<2, 1>>}
EngineTicks == {100, DEDUP_WINDOW}

NextDedup ==
    \/ WorkerStep(1)
    \/ \E ps \in DedupBatches : EngineNotify(ps)
    \/ \E d \in EngineTicks : EngineTick(d)

SpecDedup == InitEngine /\ [][NextDedup]_vars

\* Bursts of more paths than the rate ceiling, one dedup window apart
NextRate ==
    \/ WorkerStep(1)
    \/ EngineNotify(Burst)
    \/ \E d \in EngineTicks : EngineTick(d)

SpecRate == InitEngine /\ [][NextRate]_vars

----------------------------------------------------------------------------
(* Properties *)

RECURSIVE SumOver(_, _)
SumOver(m, keys) ==
    IF keys = {} THEN 0
    ELSE LET k == CHOOSE x \in keys : TRUE
         IN m[k] + SumOver(m, keys \ {k})

Min(a, b) == IF a <= b THEN a ELSE b

\* The worker is executing one iteration of the loop over event.paths
ProcessStep(w) == wk[w].pc = "paths" /\ wk'[w].cur # wk[w].cur

\* path would become a candidate event: a regular file with a file name
Candidate(path) == path \in files /\ path \notin NoFileName

\* C1: under any interleaving of start_watching and stop_watching calls at
\* most one worker thread is alive (spawned and not yet exited).
C1_AtMostOneWorkerAlive == Cardinality({w \in Workers : Alive(w)}) <= 1

\* C2: a candidate for path p that arrives less than DEDUP_WINDOW after the
\* last accepted event for p is suppressed (no on_added call, no change of
\* the dedup map or the counters); any other candidate is accepted: its
\* instant is recorded and it is handed to the rate limiter.
C2_DedupWindow ==
    [][\A w \in Workers :
         (ProcessStep(w) /\ Candidate(Head(wk[w].cur))) =>
           LET p == Head(wk[w].cur)
               prev == PrevAccepted(wk[w], p)
           IN IF prev >= 0 /\ now - prev < DEDUP_WINDOW
              THEN /\ wk'[w].sinkCalls = wk[w].sinkCalls
                   /\ wk'[w].pc # "emit"
                   /\ wk'[w].last_seen = wk[w].last_seen
                   /\ wk'[w].accepted = wk[w].accepted
                   /\ wk'[w].second_event_count = wk[w].second_event_count
                   /\ wk'[w].cleanup_counter = wk[w].cleanup_counter
              ELSE /\ p \in DOMAIN wk'[w].last_seen
                   /\ wk'[w].last_seen[p] = now
                   /\ wk'[w].accepted[p] = now
                   /\ wk'[w].out.outcome \in {"forwarded", "rate_limited"}
                   /\ wk'[w].passedAt # wk[w].passedAt]_vars

\* Paths 1 and 2 were accepted at 0, path 1 again exactly one window later,
\* and a candidate for path 1 100 ms after that was suppressed.
C2_Witness ==
    /\ wk[1].out.outcome = "dedup"
    /\ wk[1].out.path = 1
    /\ wk[1].out.prev = DEDUP_WINDOW
    /\ wk[1].out.at = DEDUP_WINDOW + 100
    /\ 0 \in DOMAIN wk[1].passedAt
    /\ wk[1].passedAt[0] = 2

\* Candidates that passed dedup / were forwarded since the rate window began
WindowPassed(s) ==
    SumOver(s.passedAt,
            {k \in DOMAIN s.passedAt : k >= s.second_window_started_at})
WindowForwarded(s) ==
    SumOver(s.fwdAt, {k \in DOMAIN s.fwdAt : k >= s.second_window_started_at})

\* C3: of the candidates that pass dedup within one rate window exactly the
\* first RATE_LIMIT_PER_SECOND are forwarded; the later ones are dropped and
\* not kept for later delivery; the counter and the window start are reset
\* together, by the first candidate that arrives a full second or more after
\* the window began.
C3_RateLimit ==
    /\ [](\A w \in Workers :
            /\ WindowForwarded(wk[w])
                 = Min(WindowPassed(wk[w]), RATE_LIMIT_PER_SECOND)
            /\ wk[w].second_event_count = WindowPassed(wk[w])
            /\ wk[w].sinkCalls = SumOver(wk[w].fwdAt, DOMAIN wk[w].fwdAt)
            /\ (wk[w].out.outcome = "rate_limited" =>
                  wk[w].ev = NoEvent /\ wk[w].pc \notin {"emit", "emit_locked"}))
    /\ [][\A w \in Workers :
            IF ProcessStep(w) /\ wk'[w].passedAt # wk[w].passedAt
            THEN IF now - wk[w].second_window_started_at >= RATE_WINDOW
                 THEN /\ wk'[w].second_window_started_at = now
                      /\ wk'[w].second_event_count = 1
                 ELSE /\ wk'[w].second_window_started_at
                           = wk[w].second_window_started_at
                      /\ wk'[w].second_event_count
                           = wk[w].second_event_count + 1
            ELSE wk[w].pc # "starting" =>
                 /\ wk'[w].second_window_started_at
                      = wk[w].second_window_started_at
                 /\ wk'[w].second_event_count = wk[w].second_event_count]_vars

\* In a window that began after a reset, the candidate past the ceiling was
\* dropped after exactly RATE_LIMIT_PER_SECOND were forwarded.
C3_Witness ==
    /\ wk[1].out.outcome = "rate_limited"
    /\ wk[1].second_window_started_at >= RATE_WINDOW
    /\ wk[1].second_event_count > RATE_LIMIT_PER_SECOND
    /\ WindowForwarded(wk[1]) = RATE_LIMIT_PER_SECOND

\* C4: in every rolling one-second interval, starting at any instant, a
\* worker forwards at most RATE_LIMIT_PER_SECOND events to the sink.
C4_RollingCeiling ==
    \A w \in Workers : \A t0 \in DOMAIN wk[w].fwdAt :
        SumOver(wk[w].fwdAt,
                {k \in DOMAIN wk[w].fwdAt : t0 <= k /\ k < t0 + RATE_WINDOW})
            <= RATE_LIMIT_PER_SECOND

\* C5: stop() returns only after the worker thread has exited, and a worker
\* whose stop() (or the stop_watching that took its handle) has returned
\* never calls the sink callback again.
C5_NoSinkCallAfterStop ==
    /\ [](\A w \in stopReturned : ~Alive(w))
    /\ [](\A t \in Threads :
            (th[t].op = "stop_watching" /\ th[t].pc = "idle" /\ th[t].h # 0)
                => th[t].h \in stopReturned)
    /\ [][\A w \in stopReturned :
            /\ wk'[w].sinkCalls = wk[w].sinkCalls
            /\ wk'[w].pc = wk[w].pc]_vars

\* stop_watching has returned for a worker that had called the sink.
C5_Witness ==
    \E t \in Threads :
        /\ th[t].op = "stop_watching" /\ th[t].pc = "idle" /\ th[t].h # 0
        /\ th[t].h \in stopReturned
        /\ wk[th[t].h].sinkCalls > 0

\* A caller thread enters an API function in this step
Calls(t, op) ==
    /\ calls' = calls + 1
    /\ th[t].pc = "idle"
    /\ th'[t] # th[t]
    /\ th'[t].op = op

\* C7: start_watching called while the watcher slot holds a handle fails with
\* WatcherAlreadyRunning, spawns no worker and leaves the watcher slot and
\* the subscriber slot unchanged.
C7_AlreadyRunning ==
    [][\A t \in Threads :
         (Calls(t, "start_watching") /\ WATCHER # 0) =>
            /\ th'[t].pc = "idle"
            /\ th'[t].ret = "WatcherAlreadyRunning"
            /\ wk' = wk
            /\ nextWorker' = nextWorker
            /\ WATCHER' = WATCHER
            /\ watcherLock' = watcherLock
            /\ FILE_ADDED_SINK' = FILE_ADDED_SINK]_vars

\* A start_watching call found the slot occupied and was refused.
C7_Witness ==
    \E t \in Threads :
        /\ th[t].op = "start_watching"
        /\ th[t].ret = "WatcherAlreadyRunning"
        /\ WATCHER # 0

\* C8: stop_watching called when the watcher slot is empty fails with
\* WatcherNotRunning.
C8_StopOnEmptySlotFails ==
    \A t \in Threads :
        (th[t].op = "stop_watching" /\ th[t].pc = "idle" /\ th[t].h = 0)
            => th[t].ret = "WatcherNotRunning"

\* The override is empty, whitespace only, or does not start at the root
BlankOrRelative(s) ==
    \/ \A i \in 1..Len(s) : s[i] = " "
    \/ s[1] # "/"

\* C10: start with an override path that is empty, whitespace only or not
\* absolute fails with InvalidPath, creates no directory, spawns no worker
\* and leaves the watcher slot empty and unlocked.
C10_InvalidOverride ==
    [][\A t \in Threads :
         (/\ th[t].pc = "sw_start"
          /\ th'[t] # th[t]
          /\ th[t].arg.some
          /\ BlankOrRelative(th[t].arg.val)) =>
            /\ th'[t].pc = "idle"
            /\ th'[t].ret = "InvalidPath"
            /\ dirs' = dirs
            /\ wk' = wk
            /\ nextWorker' = nextWorker
            /\ WATCHER = 0 /\ WATCHER' = 0
            /\ watcherLock' = 0]_vars

\* A start with an invalid override failed and a start with a valid one
\* succeeded afterwards.
C10_Witness ==
    \E t \in Threads, u \in Threads :
        /\ th[t].op = "start_watching" /\ th[t].ret = "InvalidPath"
        /\ th[u].op = "start_watching" /\ th[u].ret = "Ok"
        /\ calls = 2

----------------------------------------------------------------------------
(* Scheduling: every runnable thread is eventually run.  A caller thread    *)
(* inside an API function continues, and a spawned worker thread continues; *)
(* nothing is assumed about when callers call or notifications arrive.      *)

Continue(t) ==
    SwStart(t) \/ SwStore(t) \/ StSend(t) \/ StJoin(t) \/ StClose(t)

Fairness ==
    /\ \A t \in Threads : WF_vars(Continue(t))
    /\ \A w \in Workers : WF_vars(WorkerStep(w))

FairSpec == Spec /\ Fairness

\* stop() has been called on the handle of worker w and has not returned
Stopping(w) ==
    \E t \in Threads : th[t].pc \in {"st_send", "st_join"} /\ th[t].h = w

\* C6: whenever stop() is called, the worker eventually observes the stop
\* signal and ends, and stop() returns, also while raw notifications keep
\* arriving.
C6_StopTerminates ==
    \A w \in Workers :
        Stopping(w) ~> (w \in stopReturned /\ ~Alive(w) /\ ~Stopping(w))

\* stop() returned for a worker that had forwarded an event and was still
\* running when the stop signal was sent (stop_tx.send succeeded).
C6_Witness ==
    \E t \in Threads :
        /\ th[t].pc = "st_close" /\ th[t].sent = "ok"
        /\ wk[th[t].h].pc = "finished"
        /\ wk[th[t].h].sinkCalls > 0

\* The worker thread w has ended, by a return or by a panic
Ended(w) == wk[w].pc \in {"finished", "panicked"}

\* C9: stop() on a worker that has already finished (start-up failure or
\* panic) returns, and returns Ok: the failed send of the stop signal and the
\* panic caught at the join are not errors.
C9_StopOnFinishedWorker ==
    /\ \A w \in Workers : (Stopping(w) /\ Ended(w)) ~> (w \in stopReturned)
    /\ [](\A t \in Threads :
            (th[t].pc \in {"st_close", "idle"} /\ th[t].h # 0)
                => (th[t].res = "Ok"
                    /\ (th[t].pc = "idle" => th[t].ret = "Ok")))

\* stop_watching returned Ok for a worker that had panicked before the stop
\* signal was sent (stop_tx.send failed).
C9_Witness ==
    \E t \in Threads :
        /\ th[t].op = "stop_watching" /\ th[t].pc = "idle"
        /\ th[t].h # 0 /\ th[t].sent = "err" /\ th[t].ret = "Ok"
        /\ wk[th[t].h].pc = "panicked"

----------------------------------------------------------------------------
(* The classifier of one running worker: notifications of every kind, for   *)
(* regular files, for a directory and for files that have vanished.         *)

\* A path of the watch directory that is a directory
Folder == BurstSize + 1

ClassifyPaths == {<<1>>, <<2, Folder>>}

\* The raw source reports a notification of any kind
EngineRaw(kind, paths) ==
    /\ Waiting(1)
    /\ wk' = [wk EXCEPT ![1].queue = <<Notification(kind, paths)>>]
    /\ UNCHANGED <<WATCHER, watcherLock, FILE_ADDED_SINK, sinkLock, th, now,
                   files, dirs, calls, nextWorker, nextSink,
                   closed, delivered, stopReturned>>

\* A file is removed before the worker looks at it
EngineVanish(path) ==
    /\ path \in files
    /\ wk[1].pc = "recv"
    /\ files' = files \ {path}
    /\ UNCHANGED <<WATCHER, watcherLock, FILE_ADDED_SINK, sinkLock, th, wk, now,
                   dirs, calls, nextWorker, nextSink,
                   closed, delivered, stopReturned>>

NextClassify ==
    \/ WorkerStep(1)
    \/ \E k \in Kinds, ps \in ClassifyPaths : EngineRaw(k, ps)
    \/ EngineVanish(1)
    \/ EngineTick(DEDUP_WINDOW)

SpecClassify == InitEngine /\ [][NextClassify]_vars

\* The engine state the classifier must leave alone
EngineState(s) ==
    <<s.last_seen, s.cleanup_counter, s.second_window_started_at,
      s.second_event_count, s.sinkCalls, s.accepted>>

CreateKinds == {"create_file", "create_any", "create_folder", "create_other"}

\* C11: every event forwarded to the sink comes from a notification of a
\* create kind and a path that was a regular file when it was classified;
\* a notification of another kind, or a path that is not a regular file,
\* causes no sink call and changes neither the dedup map nor the counters.
C11_OnlyCreatedFiles ==
    [][\A w \in Workers :
         /\ (wk[w].pc = "recv" /\ wk[w].queue # <<>>
                 /\ Head(wk[w].queue).kind \notin CreateKinds
                 /\ wk'[w] # wk[w] /\ Len(wk'[w].queue) < Len(wk[w].queue))
               => /\ EngineState(wk'[w]) = EngineState(wk[w])
                  /\ wk'[w].pc = "check_stop"
                  /\ wk'[w].cur = <<>>
         /\ (ProcessStep(w) /\ Head(wk[w].cur) \notin files)
               => /\ EngineState(wk'[w]) = EngineState(wk[w])
                  /\ wk'[w].pc # "emit"
         /\ (wk'[w].cur # wk[w].cur /\ ~ProcessStep(w) /\ wk'[w].cur # <<>>)
               => /\ wk[w].pc = "recv" /\ wk[w].queue # <<>>
                  /\ Head(wk[w].queue).kind \in CreateKinds
                  /\ wk'[w].cur = Head(wk[w].queue).paths
         /\ (wk'[w].sinkCalls # wk[w].sinkCalls)
               => /\ ProcessStep(w)
                  /\ Head(wk[w].cur) \in files
                  /\ wk'[w].ev.path = Head(wk[w].cur)]_vars

\* Of a creation reported for file 2 and a directory, file 2 was forwarded
\* and the directory was skipped; file 1 has vanished and nothing was
\* forwarded for it.
C11_Witness ==
    /\ wk[1].out.outcome = "not_file"
    /\ wk[1].out.path = Folder
    /\ wk[1].sinkCalls = 1
    /\ DOMAIN wk[1].accepted = {2}
    /\ 1 \notin files
    /\ wk[1].pc = "check_stop"

----------------------------------------------------------------------------
(* The subscriber slot of one running worker: start_watching has returned   *)
(* before any on_file_added call; sinks are bound and replaced while the    *)
(* raw source reports new files.                                            *)

InitSink ==
    /\ WATCHER = 1
    /\ watcherLock = 0
    /\ FILE_ADDED_SINK = 0
    /\ sinkLock = NoHolder
    /\ th = [t \in Threads |->
               IF t = 1 THEN [IdleThread EXCEPT !.op = "start_watching",
                                                !.ret = "Ok",
                                                !.dir = <<"/", "w">>]
               ELSE IdleThread]
    /\ wk = [w \in Workers |->
               IF w = 1 THEN [Unborn EXCEPT !.pc = "starting",
                                            !.dir = <<"/", "w">>]
               ELSE Unborn]
    /\ now = 0
    /\ files = 1..BurstSize
    /\ dirs = {<<"/", "w">>}
    /\ calls = 1
    /\ nextWorker = 2
    /\ nextSink = 1
    /\ closed = {}
    /\ delivered = [s \in Sinks |-> 0]
    /\ stopReturned = {}

SinkBatches == {<<1>>, <<2>>, <<3>>}

NextSink ==
    \/ WorkerStep(1)
    \/ \E ps \in SinkBatches : EngineNotify(ps)
    \/ \E t \in Threads : Subscribe(t)

SpecSink == InitSink /\ [][NextSink]_vars

\* The worker leaves the callback in this step
CallbackReturns(w) == wk[w].pc = "emit_locked" /\ wk'[w].pc # "emit_locked"

\* C12: the subscriber slot holds at most one sink, a replaced sink is closed
\* and receives nothing further; each forwarded event goes to exactly the
\* sink in the slot when the callback runs; with an empty slot the event is
\* dropped for good and the worker keeps running.
C12_SinkSlot ==
    /\ [](/\ FILE_ADDED_SINK \notin closed
          /\ FILE_ADDED_SINK \in Sinks \cup {0}
          /\ SumOver(delivered, Sinks)
                <= SumOver([w \in Workers |-> wk[w].sinkCalls], Workers))
    /\ [][/\ \A s \in Sinks :
              delivered'[s] # delivered[s] =>
                 /\ s = FILE_ADDED_SINK
                 /\ s \notin closed
                 /\ delivered'[s] = delivered[s] + 1
                 /\ \A r \in Sinks \ {s} : delivered'[r] = delivered[r]
                 /\ \E w \in Workers : CallbackReturns(w)
          /\ \A w \in Workers :
              CallbackReturns(w) =>
                 IF FILE_ADDED_SINK = 0
                 THEN /\ delivered' = delivered
                      /\ wk'[w].pc \in {"check_stop", "paths"}
                      /\ wk'[w].ev = NoEvent
                 ELSE wk'[w].pc # "panicked" =>
                        delivered'[FILE_ADDED_SINK]
                            = delivered[FILE_ADDED_SINK] + 1]_vars

\* Of three forwarded events the first was dropped (no sink yet), the second
\* went to sink 1 and, after sink 2 replaced it, the third went to sink 2.
C12_Witness ==
    /\ wk[1].sinkCalls = 3
    /\ Alive(1) /\ wk[1].pc = "check_stop"
    /\ delivered[1] = 1 /\ delivered[2] = 1
    /\ closed = {1}
    /\ FILE_ADDED_SINK = 2

----------------------------------------------------------------------------
(* stop_watching and the subscriber stream *)

\* stop_watching returns to its caller in this step
StopReturns(t) ==
    th[t].pc = "st_close" /\ th'[t].pc = "idle"

\* C13: stop_watching empties the subscriber slot only after the worker it
\* took from the watcher slot has been stopped and joined, and the slot is
\* empty when stop_watching returns.
C13_CloseAfterJoin ==
    [][/\ (FILE_ADDED_SINK # 0 /\ FILE_ADDED_SINK' = 0) =>
             \E t \in Threads :
                /\ StopReturns(t)
                /\ th[t].h # 0 =>
                      /\ ~Alive(th[t].h)
                      /\ th[t].h \in stopReturned
                      /\ wk'[th[t].h].pc \in {"finished", "panicked"}
       /\ \A t \in Threads :
             StopReturns(t) =>
                /\ FILE_ADDED_SINK' = 0
                /\ FILE_ADDED_SINK # 0 => FILE_ADDED_SINK \in closed'
                /\ th'[t].ret = "Ok"]_vars

\* stop_watching has returned for a worker that ran while a sink was bound:
\* the worker has ended, the slot is empty and the sink is closed.
C13_Witness ==
    \E t \in Threads :
        /\ th[t].op = "stop_watching" /\ th[t].pc = "idle"
        /\ th[t].h # 0 /\ th[t].sent = "ok"
        /\ wk[th[t].h].pc = "finished"
        /\ FILE_ADDED_SINK = 0
        /\ closed = {1}

----------------------------------------------------------------------------
(* Event loss *)

\* The happy path: start_watching has returned the handle of w and nobody
\* has called stop_watching for it, a sink is bound, the worker is
\* subscribed, and the creation of regular file 1, never seen before, has
\* been reported to it.
HappyCreation(w) ==
    /\ WATCHER = w
    /\ FILE_ADDED_SINK # 0
    /\ Subscribed(w)
    /\ wk[w].queue # <<>>
    /\ Head(wk[w].queue) = Notification("create_file", <<1>>)
    /\ 1 \in files
    /\ wk[w].sinkCalls = 0
    /\ wk[w].accepted = EmptyMap

\* C14: on the happy path every creation of a regular file that is reported
\* after start has returned and before stop is called leads to a call of the
\* sink callback for it (before stop returns: a stopped worker calls nothing).
C14_NoEventLoss ==
    \A w \in Workers : HappyCreation(w) ~> (wk[w].sinkCalls > 0)

----------------------------------------------------------------------------
(* Map hygiene of one running worker: single files and bursts of more       *)
(* distinct files than the dedup map is meant to hold, ten dedup windows    *)
(* apart.                                                                   *)

\* Entries older than this are removed by a sweep (line 190)
EntryLifetime == DEDUP_WINDOW * 10

HygieneHorizon == MaxSweeps * EntryLifetime

FloodSize == DEDUP_MAP_MAX_SIZE + 1
Flood == [i \in 1..FloodSize |-> i]

InitHygiene ==
    /\ WATCHER = 1
    /\ watcherLock = 0
    /\ FILE_ADDED_SINK = 1
    /\ sinkLock = NoHolder
    /\ th = [t \in Threads |->
               IF t = 1 THEN [IdleThread EXCEPT !.op = "start_watching",
                                                !.ret = "Ok",
                                                !.dir = <<"/", "w">>]
               ELSE IdleThread]
    /\ wk = [w \in Workers |->
               IF w = 1 THEN [Unborn EXCEPT !.pc = "starting",
                                            !.dir = <<"/", "w">>]
               ELSE Unborn]
    /\ now = 0
    /\ files = 1..FloodSize
    /\ dirs = {<<"/", "w">>}
    /\ calls = 2
    /\ nextWorker = 2
    /\ nextSink = 2
    /\ closed = {}
    /\ delivered = [s \in Sinks |-> 0]
    /\ stopReturned = {}

\* The lifetime of a map entry passes between two notifications
HygieneTick ==
    /\ Waiting(1)
    /\ now + EntryLifetime <= HygieneHorizon
    /\ now' = now + EntryLifetime
    /\ UNCHANGED <<WATCHER, watcherLock, FILE_ADDED_SINK, sinkLock, th, wk,
                   files, dirs, calls, nextWorker, nextSink, closed,
                   delivered, stopReturned>>

HygieneBatches == {<<1>>, Flood}

NextHygiene ==
    \/ WorkerStep(1)
    \/ \E ps \in HygieneBatches : EngineNotify(ps)
    \/ HygieneTick

SpecHygiene == InitHygiene /\ [][NextHygiene]_vars

Size(m) == Cardinality(DOMAIN m)

\* C15: after the hygiene step that follows an insertion the dedup map holds
\* at most DEDUP_MAP_MAX_SIZE entries, whatever the number and timing of the
\* distinct paths seen.
C15_MapBounded ==
    \A w \in Workers : Size(wk[w].last_seen) <= DEDUP_MAP_MAX_SIZE

\* The worker inserts a path into the dedup map in this step
Insertion(w) == ProcessStep(w) /\ wk'[w].passedAt # wk[w].passedAt

\* C16 as stated: in every reachable state of a running worker each entry of
\* the dedup map was accepted within the last ten dedup windows of the
\* current time; no older entry remains in the map.
C16_EntriesFresh ==
    \A w \in Workers :
        Alive(w) => \A p \in DOMAIN wk[w].last_seen :
                       now - wk[w].last_seen[p] < EntryLifetime

\* C16 amended: each entry of the dedup map records the instant at which the
\* latest event for its path was accepted, and right after a sweep no entry
\* older than ten dedup windows remains (between sweeps one may).
C16_FreshAfterSweep ==
    /\ [](\A w \in Workers : \A p \in DOMAIN wk[w].last_seen :
            /\ p \in DOMAIN wk[w].accepted
            /\ wk[w].last_seen[p] = wk[w].accepted[p]
            /\ wk[w].last_seen[p] <= now)
    /\ [][\A w \in Workers :
            (Insertion(w) /\ wk'[w].out.swept) =>
               \A p \in DOMAIN wk'[w].last_seen :
                  now - wk'[w].last_seen[p] < EntryLifetime]_vars

\* A sweep at 3000 ms or later has just removed entries that were ten
\* windows old and kept the one inserted with it.
C16_Witness ==
    /\ wk[1].out.swept
    /\ wk[1].out.at >= EntryLifetime
    /\ Size(wk[1].last_seen) < wk[1].out.size
    /\ wk[1].out.path \in DOMAIN wk[1].last_seen
    /\ Size(wk[1].accepted) > Size(wk[1].last_seen)

\* C18: after every insertion a sweep runs exactly when the map holds more
\* than DEDUP_MAP_MAX_SIZE entries or the insertion counter has reached
\* CLEANUP_EVERY; the sweep removes every entry older than ten dedup windows
\* (and nothing else) and zeroes the counter; otherwise no entry is removed
\* and the counter is incremented by one.
C18_MapHygiene ==
    [][\A w \in Workers :
         Insertion(w) =>
            LET p == Head(wk[w].cur)
                before == wk[w].last_seen
                after == wk'[w].last_seen
                keys == DOMAIN before \cup {p}
                at(k) == IF k = p THEN now ELSE before[k]
                due == \/ Cardinality(keys) > DEDUP_MAP_MAX_SIZE
                       \/ wk[w].cleanup_counter + 1 >= CLEANUP_EVERY
            IN /\ wk'[w].out.swept = due
               /\ \A k \in DOMAIN after : k \in keys /\ after[k] = at(k)
               /\ IF due
                  THEN /\ DOMAIN after
                            = {k \in keys : now - at(k) < EntryLifetime}
                       /\ wk'[w].cleanup_counter = 0
                  ELSE /\ DOMAIN after = keys
                       /\ wk'[w].cleanup_counter = wk[w].cleanup_counter + 1]_vars

\* A sweep was set off by the size of the map alone (the counter had not
\* reached its threshold) and removed the stale entries.
C18_Witness ==
    /\ wk[1].out.swept
    /\ wk[1].out.size > DEDUP_MAP_MAX_SIZE
    /\ wk[1].out.path = 1
    /\ wk[1].last_seen = (1 :> wk[1].out.at)
    /\ wk[1].cleanup_counter = 0

----------------------------------------------------------------------------
(* Order of dedup and rate limit *)

\* C17: dedup is tested before the rate limit: a candidate suppressed as a
\* duplicate neither increments the per-second counter nor resets the rate
\* window, so the counter of a window equals the number of candidates that
\* passed dedup in it.
C17_DedupBeforeRate ==
    /\ [][\A w \in Workers :
            (/\ ProcessStep(w)
             /\ Candidate(Head(wk[w].cur))
             /\ PrevAccepted(wk[w], Head(wk[w].cur)) >= 0
             /\ now - PrevAccepted(wk[w], Head(wk[w].cur)) < DEDUP_WINDOW)
              => /\ wk'[w].second_event_count = wk[w].second_event_count
                 /\ wk'[w].second_window_started_at
                      = wk[w].second_window_started_at
                 /\ wk'[w].passedAt = wk[w].passedAt]_vars
    /\ [](\A w \in Workers :
            wk[w].second_event_count
               = SumOver(wk[w].passedAt,
                         {k \in DOMAIN wk[w].passedAt :
                             k >= wk[w].second_window_started_at}))

\* A duplicate arrived when the rate window had already run out and was
\* suppressed without starting a new window.
C17_Witness ==
    /\ wk[1].out.outcome = "dedup"
    /\ wk[1].out.at - wk[1].second_window_started_at >= RATE_WINDOW
    /\ wk[1].second_event_count > 0

----------------------------------------------------------------------------
(* Absence of deadlock *)

\* C19: no interleaving of start_watching, stop_watching and on_file_added
\* calls with the worker's sink callback deadlocks: every call returns and
\* every lock is released; stop_watching holds no lock while it waits for the
\* worker, and no party holds one lock while it waits for the other.
C19_NoDeadlock ==
    /\ \A t \in Threads : (th[t].pc # "idle") ~> (th[t].pc = "idle")
    /\ (watcherLock # 0) ~> (watcherLock = 0)
    /\ (sinkLock # NoHolder) ~> (sinkLock = NoHolder)
    /\ [](\A t \in Threads :
            th[t].pc \in {"st_send", "st_join", "st_close"} =>
               /\ watcherLock # t
               /\ sinkLock # <<"thread", t>>)
    /\ [](sinkLock # NoHolder =>
            \E w \in Workers : /\ sinkLock = WorkerHolder(w)
                                /\ wk[w].pc = "emit_locked")
    /\ [](watcherLock # 0 =>
            /\ watcherLock \in Threads
            /\ th[watcherLock].pc \in {"sw_start", "sw_store"})

\* stop_watching waits for the worker to end while the worker is inside the
\* sink callback with the subscriber slot locked, and the other caller has
\* subscribed.
C19_Witness ==
    \E t \in Threads, u \in Threads :
        /\ th[t].pc = "st_join"
        /\ wk[th[t].h].pc = "emit_locked"
        /\ sinkLock = WorkerHolder(th[t].h)
        /\ th[u].op = "on_file_added" /\ th[u].pc = "idle"

----------------------------------------------------------------------------
(* Failure of the subscription at start-up *)

\* The subscription of worker w to the raw event source failed
SubscriptionFailed(w) == wk[w].out.outcome = "start_failed"

\* C20: when the subscription to the raw event source fails at start-up,
\* start_watching still returns the handle; the worker has ended without
\* entering its loop and never calls the sink; a later stop on the handle
\* returns success.
C20_SubscriptionFailure ==
    /\ [](\A w \in Workers :
            SubscriptionFailed(w) =>
               /\ wk[w].pc = "finished"
               /\ wk[w].sinkCalls = 0
               /\ wk[w].last_seen = EmptyMap
               /\ wk[w].queue = <<>>
               /\ wk[w].second_event_count = 0)
    /\ [][\A t \in Threads :
            (/\ th[t].pc = "sw_store" /\ th'[t] # th[t]
             /\ SubscriptionFailed(th[t].h))
              => /\ th'[t].pc = "idle"
                 /\ th'[t].ret = "Ok"
                 /\ WATCHER' = th[t].h]_vars
    /\ [](\A t \in Threads :
            (/\ th[t].op = "stop_watching"
             /\ th[t].pc \in {"st_close", "idle"}
             /\ th[t].h # 0
             /\ SubscriptionFailed(th[t].h))
              => /\ th[t].res = "Ok"
                 /\ th[t].h \in stopReturned
                 /\ th[t].pc = "idle" => th[t].ret = "Ok")

\* start_watching returned Ok for a worker whose subscription had failed,
\* and stop_watching on its handle (the stop signal could not be sent)
\* returned Ok.
C20_Witness ==
    \E t \in Threads, u \in Threads :
        /\ th[u].op = "start_watching" /\ th[u].ret = "Ok"
        /\ th[t].op = "stop_watching" /\ th[t].pc = "idle"
        /\ th[t].h # 0 /\ SubscriptionFailed(th[t].h)
        /\ th[t].sent = "err" /\ th[t].ret = "Ok"

----------------------------------------------------------------------------
(* Errors reported by the raw event source to one running worker: the       *)
(* source sends Err(e) into the channel, followed by the creation of file 2; *)
(* creations of file 1 arrive on their own.                                  *)

SourceError == Notification("error", <<>>)

\* The raw source reports an error and then a creation
EngineErrorThen(paths) ==
    /\ Waiting(1)
    /\ wk' = [wk EXCEPT ![1].queue =
                 <<SourceError, Notification("create_file", paths)>>]
    /\ UNCHANGED <<WATCHER, watcherLock, FILE_ADDED_SINK, sinkLock, th, now,
                   files, dirs, calls, nextWorker, nextSink,
                   closed, delivered, stopReturned>>

NextSourceError ==
    \/ WorkerStep(1)
    \/ EngineNotify(<<1>>)
    \/ EngineErrorThen(<<2>>)
    \/ EngineTick(DEDUP_WINDOW)

SpecSourceError == InitEngine /\ [][NextSourceError]_vars

\* The worker takes a source error out of the channel in this step
TakesError(w) ==
    /\ wk[w].pc = "recv"
    /\ wk[w].queue # <<>>
    /\ Head(wk[w].queue) = SourceError
    /\ wk'[w] # wk[w]

\* C22: an error reported by the source is not fatal: the worker stays in
\* its loop, the dedup map, the counters and the rate window are unchanged,
\* and what is queued after the error is still received and processed.
C22_SourceErrorAbsorbed ==
    /\ [][\A w \in Workers :
            TakesError(w) =>
               /\ wk'[w].pc = "check_stop"
               /\ EngineState(wk'[w]) = EngineState(wk[w])
               /\ wk'[w].queue = Tail(wk[w].queue)
               /\ wk'[w].stop_q = wk[w].stop_q]_vars
    /\ [](\A w \in Workers :
            (wk[w].pc = "finished" /\ ~SubscriptionFailed(w)) =>
               \E t \in Threads : th[t].h = w /\ th[t].sent = "ok")

\* File 2, whose creation is only ever reported behind a source error, was
\* forwarded after file 1.
C22_Witness ==
    /\ DOMAIN wk[1].accepted = {1, 2}
    /\ wk[1].out.outcome = "forwarded"
    /\ wk[1].out.path = 2
    /\ wk[1].sinkCalls = 2
    /\ wk[1].pc = "emit"

----------------------------------------------------------------------------
(* Notifications with several paths, for one running worker: a file whose   *)
(* name cannot be read (path 0), a directory, file 1 twice and file 2.      *)

InitBatch ==
    /\ WATCHER = 1
    /\ watcherLock = 0
    /\ FILE_ADDED_SINK = 1
    /\ sinkLock = NoHolder
    /\ th = [t \in Threads |->
               IF t = 1 THEN [IdleThread EXCEPT !.op = "start_watching",
                                                !.ret = "Ok",
                                                !.dir = <<"/", "w">>]
               ELSE IdleThread]
    /\ wk = [w \in Workers |->
               IF w = 1 THEN [Unborn EXCEPT !.pc = "starting",
                                            !.dir = <<"/", "w">>]
               ELSE Unborn]
    /\ now = 0
    /\ files = 0..BurstSize
    /\ dirs = {<<"/", "w">>}
    /\ calls = 2
    /\ nextWorker = 2
    /\ nextSink = 2
    /\ closed = {}
    /\ delivered = [s \in Sinks |-> 0]
    /\ stopReturned = {}

MixedBatch == <<0, Folder, 1, 1, 2>>

NextBatch ==
    \/ WorkerStep(1)
    \/ \E ps \in {<<1>>, MixedBatch} : EngineNotify(ps)
    \/ EngineTick(DEDUP_WINDOW)

SpecBatch == InitBatch /\ [][NextBatch]_vars

\* What the loop body must do with path p at this instant
Expected(w, p) ==
    IF p \notin files THEN {"not_file"}
    ELSE IF p \in NoFileName THEN {"no_name"}
    ELSE IF PrevAccepted(wk[w], p) >= 0
            /\ now - PrevAccepted(wk[w], p) < DEDUP_WINDOW THEN {"dedup"}
    ELSE {"forwarded", "rate_limited"}

\* C23: inside one notification a path that fails classification (not a
\* regular file, no file name) or is suppressed by dedup is skipped alone:
\* the loop goes on with the remaining paths, each classified and gated on
\* its own, and returns to the stop check only when none is left.
C23_PerPathIsolation ==
    /\ [][\A w \in Workers :
            /\ ProcessStep(w) =>
                  /\ wk'[w].cur = Tail(wk[w].cur)
                  /\ wk'[w].out.path = Head(wk[w].cur)
                  /\ wk'[w].out.outcome \in Expected(w, Head(wk[w].cur))
                  /\ wk'[w].pc = IF wk'[w].out.outcome = "forwarded"
                                 THEN "emit" ELSE AfterPath(Tail(wk[w].cur))
            /\ (CallbackReturns(w) /\ wk'[w].pc # "panicked") =>
                  /\ wk'[w].cur = wk[w].cur
                  /\ wk'[w].pc = AfterPath(wk[w].cur)]_vars
    /\ [](\A w \in Workers :
            wk[w].pc \in {"check_stop", "recv"} => wk[w].cur = <<>>)

\* The whole mixed notification was worked off at one instant: paths 0, the
\* directory and the second mention of file 1 were skipped, files 1 and 2
\* were forwarded.
C23_Witness ==
    /\ wk[1].pc = "check_stop"
    /\ wk[1].out.path = 2
    /\ wk[1].out.outcome = "forwarded"
    /\ wk[1].accepted = (1 :> now) @@ (2 :> now)
    /\ wk[1].passedAt = (now :> 2)
    /\ wk[1].sinkCalls = 2

----------------------------------------------------------------------------
(* Restart after a stop *)

\* Thread t is in start_watching with an override directory that exists
RestartsOn(t) ==
    /\ th[t].pc = "sw_start"
    /\ th[t].arg.some
    /\ th[t].arg.val \in dirs
    /\ th'[t] # th[t]

\* C24: stop_watching empties the watcher slot and a stopped worker never
\* comes back into it; start_watching with an override directory that
\* already exists succeeds with a fresh worker, returns that same directory
\* and leaves the directories and the files as they were.
C24_RestartIdempotent ==
    /\ [][\A t \in Threads :
            /\ Calls(t, "stop_watching") => WATCHER' = 0
            /\ RestartsOn(t) =>
                  /\ th'[t].pc = "sw_store"
                  /\ th'[t].dir = th[t].arg.val
                  /\ th'[t].h \notin stopReturned
                  /\ wk[th'[t].h].pc = "unborn"
                  /\ wk'[th'[t].h].pc = "starting"
                  /\ dirs' = dirs
                  /\ files' = files
            /\ (th[t].pc = "sw_store" /\ th'[t] # th[t]) =>
                  /\ th'[t].pc = "idle"
                  /\ th'[t].ret = "Ok"
                  /\ th'[t].dir = th[t].dir
                  /\ WATCHER' = th[t].h]_vars
    /\ [](\A w \in stopReturned : WATCHER # w)

\* start, stop and start again on one thread with the same override: the
\* first worker was stopped cleanly, the second start returned the same
\* directory and its worker holds the slot.
C24_Witness ==
    /\ calls = 3
    /\ 1 \in stopReturned
    /\ wk[1].pc = "finished"
    /\ wk[1].dir = <<"/", "w">>
    /\ WATCHER = 2
    /\ wk[2].dir = <<"/", "w">>
    /\ \E t \in Threads :
          /\ th[t].pc = "idle"
          /\ th[t].op = "start_watching"
          /\ th[t].ret = "Ok"
          /\ th[t].dir = <<"/", "w">>

----------------------------------------------------------------------------
(* Candidates dropped by the rate limit *)

\* The loop body drops the candidate at the head of the notification because
\* the rate ceiling is reached
RateLimited(w) == ProcessStep(w) /\ wk'[w].out.outcome = "rate_limited"

\* C25: a candidate that passes dedup and is dropped by the rate limit is
\* recorded in the dedup map with the current instant and reaches no sink
\* call; a later candidate for a path that was never forwarded, within the
\* dedup window of that record, is suppressed as a duplicate.
C25_RateLimitedRecorded ==
    [][\A w \in Workers :
         LET p == Head(wk[w].cur)
         IN /\ RateLimited(w) =>
                  /\ p \in DOMAIN wk'[w].last_seen
                  /\ wk'[w].last_seen[p] = now
                  /\ wk'[w].sinkCalls = wk[w].sinkCalls
                  /\ wk'[w].forwarded = wk[w].forwarded
                  /\ wk'[w].ev = NoEvent
            /\ (/\ ProcessStep(w)
                /\ Candidate(p)
                /\ p \notin wk[w].forwarded
                /\ PrevAccepted(wk[w], p) >= 0
                /\ now - PrevAccepted(wk[w], p) < DEDUP_WINDOW) =>
                  /\ wk'[w].out.outcome = "dedup"
                  /\ wk'[w].last_seen = wk[w].last_seen
                  /\ wk'[w].forwarded = wk[w].forwarded]_vars

\* The last file of a burst was dropped by the rate limit and, 100 ms later,
\* suppressed as a duplicate; no event for it ever reached the sink.
C25_Witness ==
    /\ wk[1].out.outcome = "dedup"
    /\ wk[1].out.path = BurstSize
    /\ BurstSize \notin wk[1].forwarded
    /\ wk[1].forwarded = 1..RATE_LIMIT_PER_SECOND
    /\ wk[1].out.prev >= 0
    /\ wk[1].out.at - wk[1].out.prev < DEDUP_WINDOW
    /\ wk[1].out.at > wk[1].out.prev

----------------------------------------------------------------------------
(* The slot after the worker has exited on its own: start_watching has      *)
(* returned Ok and stored the handle, the worker's subscription failed and  *)
(* its thread ended.                                                        *)

InitExited ==
    /\ WATCHER = 1
    /\ watcherLock = 0
    /\ FILE_ADDED_SINK = 0
    /\ sinkLock = NoHolder
    /\ th = [t \in Threads |->
               IF t = 1 THEN [IdleThread EXCEPT !.op = "start_watching",
                                                !.ret = "Ok",
                                                !.dir = <<"/", "w">>]
               ELSE IdleThread]
    /\ wk = [w \in Workers |->
               IF w = 1 THEN StartFailed([Unborn EXCEPT !.dir = <<"/", "w">>], 0)
               ELSE Unborn]
    /\ now = 0
    /\ files = {0, 1}
    /\ dirs = {<<"/", "w">>}
    /\ calls = 0
    /\ nextWorker = 2
    /\ nextSink = 1
    /\ closed = {}
    /\ delivered = [s \in Sinks |-> 0]
    /\ stopReturned = {}

SpecExited == InitExited /\ [][Next]_vars

\* C26: a handle whose worker has exited on its own stays in the watcher
\* slot: start_watching on it fails with WatcherAlreadyRunning and starts
\* nothing, only stop_watching takes a handle out of the slot, and on the
\* empty slot start_watching goes on to start a watcher.
C26_SlotKeptAfterExit ==
    /\ [][\A t \in Threads :
            /\ (Calls(t, "start_watching") /\ WATCHER # 0 /\ ~Alive(WATCHER)) =>
                  /\ th'[t].pc = "idle"
                  /\ th'[t].ret = "WatcherAlreadyRunning"
                  /\ WATCHER' = WATCHER
                  /\ nextWorker' = nextWorker
                  /\ wk' = wk
            /\ (Calls(t, "start_watching") /\ WATCHER = 0) =>
                  /\ th'[t].pc = "sw_start"
                  /\ watcherLock' = t]_vars
    /\ [][(WATCHER # 0 /\ WATCHER' # WATCHER) =>
            \E t \in Threads : Calls(t, "stop_watching") /\ th'[t].h = WATCHER]_vars

\* While the only worker ever spawned was dead a start_watching call was
\* refused; stop_watching then took the handle out of the slot.
C26_Witness ==
    /\ SubscriptionFailed(1)
    /\ nextWorker = 2
    /\ 1 \in stopReturned
    /\ WATCHER = 0
    /\ \E t \in Threads :
          /\ th[t].pc = "idle"
          /\ th[t].op = "start_watching"
          /\ th[t].ret = "WatcherAlreadyRunning"

----------------------------------------------------------------------------
(* A direct caller of start_watcher: thread 1 holds the WatcherHandle of    *)
(* worker 1 itself and either calls stop() on it or lets it go out of scope *)
(* before the first event is forwarded, which drops stop_tx without a send  *)
(* and detaches the thread.                                                 *)

InitOrphan ==
    /\ WATCHER = 0
    /\ watcherLock = 0
    /\ FILE_ADDED_SINK = 1
    /\ sinkLock = NoHolder
    /\ th = [t \in Threads |->
               IF t = 1 THEN [IdleThread EXCEPT !.op = "start_watcher",
                                                !.h = 1,
                                                !.ret = "Ok",
                                                !.dir = <<"/", "w">>]
               ELSE IdleThread]
    /\ wk = [w \in Workers |->
               IF w = 1 THEN [Unborn EXCEPT !.pc = "starting",
                                            !.dir = <<"/", "w">>]
               ELSE Unborn]
    /\ now = 0
    /\ files = {1, 2}
    /\ dirs = {<<"/", "w">>}
    /\ calls = 0
    /\ nextWorker = 2
    /\ nextSink = 2
    /\ closed = {}
    /\ delivered = [s \in Sinks |-> 0]
    /\ stopReturned = {}

\* The WatcherHandle is dropped: stop_tx goes without a send
DropHandle(t) ==
    /\ th[t].pc = "idle"
    /\ th[t].h # 0
    /\ wk[th[t].h].sinkCalls = 0
    /\ wk' = [wk EXCEPT ![th[t].h].stop_tx = "dropped"]
    /\ th' = [th EXCEPT ![t].h = 0]
    /\ UNCHANGED <<WATCHER, watcherLock, FILE_ADDED_SINK, sinkLock, now, files,
                   dirs, calls, nextWorker, nextSink, closed, delivered,
                   stopReturned>>

\* handle.stop() is called
HandleStop(t) ==
    /\ th[t].pc = "idle"
    /\ th[t].h # 0
    /\ th' = [th EXCEPT ![t].pc = "st_send"]
    /\ UNCHANGED <<WATCHER, watcherLock, FILE_ADDED_SINK, sinkLock, wk, now,
                   files, dirs, calls, nextWorker, nextSink, closed, delivered,
                   stopReturned>>

NextOrphan ==
    \/ WorkerStep(1)
    \/ \E ps \in DedupBatches : EngineNotify(ps)
    \/ EngineTick(DEDUP_WINDOW)
    \/ DropHandle(1)
    \/ HandleStop(1)
    \/ StSend(1)
    \/ StJoin(1)

SpecOrphan == InitOrphan /\ [][NextOrphan]_vars

\* C27: the worker leaves its running loop for the end of the thread only at
\* the stop check and only with a stop signal received.  The timed wait
\* always goes back into the loop (the notification channel is never
\* disconnected), and a stop check without a signal goes on to the wait,
\* also when the stop sender was dropped without sending: a worker whose
\* handle was dropped keeps running.  (A panic of the subscriber callback
\* kills the thread; it is not an exit of the loop.)
C27_OnlyStopEndsLoop ==
    /\ [][\A w \in Workers :
            /\ (Subscribed(w) /\ wk'[w].pc = "finished") =>
                  /\ wk[w].pc = "check_stop"
                  /\ wk[w].stop_q > 0
            /\ (wk[w].pc = "recv" /\ wk'[w].pc # "recv") =>
                  wk'[w].pc \in {"check_stop", "paths"}
            /\ (wk[w].pc = "check_stop" /\ wk[w].stop_q = 0
                   /\ wk'[w].pc # "check_stop") =>
                  wk'[w].pc = "recv"]_vars
    /\ [](\A w \in Workers :
            (wk[w].pc = "recv" \/ wk[w].pc = "check_stop") => event_tx_alive(wk[w]))
    /\ [](\A w \in Workers :
            (wk[w].stop_tx = "dropped" /\ wk[w].pc = "finished") =>
               SubscriptionFailed(w) \/ w \in stopReturned)

\* The handle was dropped before anything was forwarded and no stop was ever
\* sent, yet the worker has forwarded events since and waits for more.
C27_Witness ==
    /\ wk[1].stop_tx = "dropped"
    /\ 1 \notin stopReturned
    /\ wk[1].stop_q = 0
    /\ wk[1].forwarded = {1, 2}
    /\ wk[1].pc = "recv"
    /\ now > 0

----------------------------------------------------------------------------
(* What the worker still does once the stop signal is in its channel *)

\* The stop signal was sent to worker w and is not yet received
StopPending(w) == wk[w].stop_q > 0

\* C28: with the stop signal in its channel the worker never starts a second
\* wait: the notification it is waiting for or working on is the last, and
\* from the processing of it the loop can only reach the stop check, where
\* the thread ends; what is still queued then is dropped with the channel,
\* and the ended worker makes no sink call.
C28_AtMostOneMore ==
    [][\A w \in Workers :
         /\ (StopPending(w) /\ wk[w].pc # "recv") => wk'[w].pc # "recv"
         /\ (StopPending(w) /\ wk[w].pc = "check_stop"
                /\ wk'[w].pc # "check_stop") =>
               /\ wk'[w].pc = "finished"
               /\ wk'[w].queue = <<>>
               /\ wk'[w].cur = <<>>
               /\ wk'[w].sinkCalls = wk[w].sinkCalls
               /\ delivered' = delivered
         /\ wk[w].pc = "finished" =>
               /\ wk'[w].sinkCalls = wk[w].sinkCalls
               /\ wk'[w].queue = <<>>]_vars

\* The worker comes back to the stop check from a forwarded event with the
\* stop signal in and a creation still queued, which it is about to drop.
C28_Witness ==
    \E w \in Workers :
        /\ StopPending(w)
        /\ wk[w].pc = "check_stop"
        /\ wk[w].out.outcome = "forwarded"
        /\ wk[w].queue # <<>>
        /\ Head(wk[w].queue).kind = "create_file"

----------------------------------------------------------------------------
(* Duplicates do not extend the dedup window *)

\* The loop body suppresses the candidate at the head of the notification
Suppressed(w) == ProcessStep(w) /\ wk'[w].out.outcome = "dedup"

\* C29: a candidate suppressed by dedup leaves the dedup map and the cleanup
\* counter as they were, so the window of a path runs from the last
\* candidate that passed dedup: whatever was suppressed since, a candidate
\* arriving a full window or more after it passes dedup again and becomes
\* the path's new instant.
C29_NoRefreshOnDuplicate ==
    [][\A w \in Workers :
         LET p == Head(wk[w].cur)
         IN /\ Suppressed(w) =>
                  /\ wk'[w].last_seen = wk[w].last_seen
                  /\ wk'[w].cleanup_counter = wk[w].cleanup_counter
                  /\ wk'[w].last_seen[p] = PrevAccepted(wk[w], p)
            /\ (/\ ProcessStep(w)
                /\ Candidate(p)
                /\ PrevAccepted(wk[w], p) >= 0
                /\ now - PrevAccepted(wk[w], p) >= DEDUP_WINDOW) =>
                  /\ wk'[w].out.outcome \in {"forwarded", "rate_limited"}
                  /\ wk'[w].last_seen[p] = now]_vars

\* A candidate for file 1 was suppressed 200 ms after the accepted one and
\* the map still holds the instant of the accepted one.
C29_Witness ==
    /\ wk[1].out.outcome = "dedup"
    /\ wk[1].out.path = 1
    /\ wk[1].out.prev = 0
    /\ wk[1].out.at = 200
    /\ wk[1].last_seen[1] = 0
    /\ wk[1].forwarded = {1}

====
